---- MODULE Spec2Model ----
(***************************************************************************)
(* The validated mutation layer of the CRM backend (crm/schema.py over the *)
(* models of crm/models.py): CreateCustomer, BulkCreateCustomers,          *)
(* CreateProduct and CreateOrder, run by concurrent callers against one    *)
(* relational store.  Every store call of a handler is one atomic step;    *)
(* the steps of different callers interleave freely.                       *)
(*                                                                         *)
(* Text values (names, emails, phones, GraphQL IDs) are sequences of       *)
(* one-character strings, so that the regular expressions and int() of the *)
(* source are computed character by character.  Prices are in cents.       *)
(***************************************************************************)
EXTENDS Integers, Sequences, FiniteSets, TLC

(***************************************************************************)
(* Bounds of the model.                                                    *)
(***************************************************************************)
\* the longest batch handed to bulkCreateCustomers while another caller runs
MaxBatch == 2
\* the longest batch handed to bulkCreateCustomers by a caller running alone
MaxBatchAlone == 3
\* the longest product_ids list handed to createOrder
MaxProducts == 2
\* the number of store calls that fail for a reason of the store's own
\* (connection lost, lock timeout, deadlock victim) in one behaviour
MaxFaults == 1

\* the concurrent callers, each making one request, numbered in the order in
\* which their requests arrive
Procs == {1, 2}

(***************************************************************************)
(* Characters and the two validators.                                      *)
(***************************************************************************)
LowerSeq == <<"a","b","c","d","e","f","g","h","i","j","k","l","m",
              "n","o","p","q","r","s","t","u","v","w","x","y","z">>
UpperSeq == <<"A","B","C","D","E","F","G","H","I","J","K","L","M",
              "N","O","P","Q","R","S","T","U","V","W","X","Y","Z">>
DigitSeq == <<"0","1","2","3","4","5","6","7","8","9">>

Range(s) == {s[k] : k \in DOMAIN s}
Letters == Range(LowerSeq) \cup Range(UpperSeq)
Digits == Range(DigitSeq)

\* [a-zA-Z0-9._%+-]
LocalChars == Letters \cup Digits \cup {".", "_", "%", "+", "-"}
\* [a-zA-Z0-9.-]
DomainChars == Letters \cup Digits \cup {".", "-"}
\* [\d\-\s\(\)]
PhoneChars == Digits \cup {"-", " ", "(", ")"}

\* re.match(r'^[a-zA-Z0-9._%+-]+@[a-zA-Z0-9.-]+\.[a-zA-Z]{2,}$', email)
validate_email(email) ==
    \E i \in 2..Len(email) : \E j \in (i + 2)..(Len(email) - 2) :
        /\ email[i] = "@"
        /\ \A k \in 1..(i - 1) : email[k] \in LocalChars
        /\ \A k \in (i + 1)..(j - 1) : email[k] \in DomainChars
        /\ email[j] = "."
        /\ \A k \in (j + 1)..Len(email) : email[k] \in Letters

\* if not phone: True; else re.match(r'^\+?[\d\-\s\(\)]+$', phone)
validate_phone(phone) ==
    IF Len(phone) = 0 THEN TRUE
    ELSE LET rest == IF phone[1] = "+" THEN Tail(phone) ELSE phone
         IN  /\ Len(rest) >= 1
             /\ \A k \in DOMAIN rest : rest[k] \in PhoneChars

(***************************************************************************)
(* Inputs.                                                                 *)
(***************************************************************************)
EmailA == <<"a","@","x",".","c","o","m">>
EmailAUpper == <<"A","@","X",".","c","o","m">>
EmailB == <<"b","@","x",".","c","o","m">>
EmailNoTld == <<"a","@","x">>
NameA == <<"A">>
NameEmpty == <<>>
PhoneNone == <<>>
PhoneIntl == <<"+","1","2">>
PhoneLetters == <<"x">>

\* CustomerInput: name and email are required strings, phone is optional
\* (an absent phone and an empty phone both fail `if input.phone`)
CustomerInputs ==
    { [name |-> NameA,     email |-> EmailA,      phone |-> PhoneNone],
      [name |-> NameEmpty, email |-> EmailB,      phone |-> PhoneNone],
      [name |-> NameA,     email |-> EmailAUpper, phone |-> PhoneIntl],
      [name |-> NameA,     email |-> EmailA,      phone |-> PhoneLetters],
      [name |-> NameA,     email |-> EmailNoTld,  phone |-> PhoneLetters] }

SeqsUpTo(S, n) == UNION {[1..m -> S] : m \in 0..n}

\* the elements batches are made of
BatchInputs == {in \in CustomerInputs : in.email # EmailAUpper}

\* graphene.List(CustomerInput)
Batches == SeqsUpTo(BatchInputs, MaxBatchAlone)
ConcurrentBatches == SeqsUpTo(BatchInputs, MaxBatch)

\* ProductInput: price is a required Decimal (in cents here), stock an optional
\* Int: <<>> when absent, <<n>> when given
ProductInputs ==
    { [name |-> NameA, price |-> 2550,  stock |-> <<>>],
      [name |-> NameA, price |-> 99999, stock |-> <<5>>],
      [name |-> NameA, price |-> 0,     stock |-> <<-1>>],
      [name |-> NameA, price |-> -100,  stock |-> <<0>>] }

\* graphene.ID values: the key of a seeded row, a key no row ever has, and text
\* that is no number
CustomerIdInputs == {<<"1">>, <<"9">>, <<"a","b","c">>}
ProductIdInputs == {<<"1">>, <<"9">>, <<"x">>}

\* OrderInput (order_date is overwritten by auto_now_add and left out)
OrderInputs ==
    { [customer_id |-> c, product_ids |-> ps] :
        c \in CustomerIdInputs, ps \in SeqsUpTo(ProductIdInputs, MaxProducts) }

\* int(value), as the primary-key lookup applies it to a GraphQL ID: defined on
\* digit strings only
IsInt(s) == Len(s) > 0 /\ \A k \in DOMAIN s : s[k] \in Digits
DigitValue(c) == (CHOOSE k \in DOMAIN DigitSeq : DigitSeq[k] = c) - 1
RECURSIVE IntOf(_)
IntOf(s) == IF Len(s) = 0 THEN 0
            ELSE 10 * IntOf(SubSeq(s, 1, Len(s) - 1)) + DigitValue(s[Len(s)])

(***************************************************************************)
(* State.                                                                  *)
(***************************************************************************)
VARIABLES
    customers,   \* committed Customer rows
    products,    \* committed Product rows
    orders,      \* committed Order rows, each with its order-product associations
    lastId,      \* the last primary key handed out, per table
    txn,         \* per caller: the rows its open transaction.atomic() block has written
    pc,          \* per caller: the store call its handler is about to make
    input,       \* per caller: the mutation called and its argument
    local,       \* per caller: the handler's local variables
    resp,        \* per caller: what the handler returned, or the exception it raised
    writes,      \* per caller: the store writes the current call has completed
    faults       \* the number of store calls that have failed on the store's side

vars == <<customers, products, orders, lastId, txn, pc, input, local, resp, writes, faults>>

\* Python's None, where a model instance is expected
None == [id |-> 0]

NoTxn == [customers |-> {}, orders |-> {}]

NoLocal == [errors |-> <<>>, i |-> 1, created |-> <<>>, needs_rollback |-> FALSE,
            customer |-> None, products |-> <<>>, order |-> None]

NoResp == [status |-> "none"]

\* an exception that leaves mutate(): the handler builds no response
Raised(e) == [status |-> "raised", exception |-> e]

\* the database after the migrations of crm/models.py: three empty tables
Init ==
    /\ customers = {}
    /\ products = {}
    /\ orders = {}
    /\ lastId = [customer |-> 0, product |-> 0, order |-> 0]
    /\ txn = [p \in Procs |-> NoTxn]
    /\ pc = [p \in Procs |-> "idle"]
    /\ input = [p \in Procs |-> [op |-> "none"]]
    /\ local = [p \in Procs |-> NoLocal]
    /\ resp = [p \in Procs |-> NoResp]
    /\ writes = [p \in Procs |-> 0]
    /\ faults = 0

\* the database after seed_db.run(): two customers, three products and one
\* order of all three
SeededCustomers ==
    { [id |-> 1, name |-> <<"A","l","i","c","e">>, email |-> <<"a","l","i","c","e","@","e","x","a","m","p","l","e",".","c","o","m">>,
       phone |-> <<"+","1","2","3","4","5","6","7","8","9","0">>],
      [id |-> 2, name |-> <<"B","o","b">>, email |-> <<"b","o","b","@","e","x","a","m","p","l","e",".","c","o","m">>,
       phone |-> <<"1","2","3","-","4","5","6","-","7","8","9","0">>] }

SeededProducts ==
    { [id |-> 1, name |-> <<"L","a","p","t","o","p">>, price |-> 99999, stock |-> 10],
      [id |-> 2, name |-> <<"M","o","u","s","e">>, price |-> 2550, stock |-> 100],
      [id |-> 3, name |-> <<"K","e","y","b","o","a","r","d">>, price |-> 4500, stock |-> 50] }

SeededOrders ==
    { [id |-> 1, customer |-> 1, products |-> {1, 2, 3}, total_amount |-> 107049] }

InitSeeded ==
    /\ customers = SeededCustomers
    /\ products = SeededProducts
    /\ orders = SeededOrders
    /\ lastId = [customer |-> 2, product |-> 3, order |-> 1]
    /\ txn = [p \in Procs |-> NoTxn]
    /\ pc = [p \in Procs |-> "idle"]
    /\ input = [p \in Procs |-> [op |-> "none"]]
    /\ local = [p \in Procs |-> NoLocal]
    /\ resp = [p \in Procs |-> NoResp]
    /\ writes = [p \in Procs |-> 0]
    /\ faults = 0

(***************************************************************************)
(* The store, as the handlers use it.                                      *)
(***************************************************************************)
IntegrityErrorMsg == "UNIQUE constraint failed: crm_customer.email"
StoreFaultMsg == "OperationalError"
TransactionManagementErrorMsg == "An error occurred in the current transaction."

\* what a query of caller p sees: the committed rows and the rows of its own
\* open transaction
VisibleCustomers(p) == customers \cup txn[p].customers

\* Customer.objects.filter(email=email).exists(): an exact comparison
EmailExists(p, email) == \E c \in VisibleCustomers(p) : c.email = email

\* a caller's request arrives once those of the callers before it have
CanCall(p) == pc[p] = "idle" /\ \A q \in Procs : q < p => pc[q] # "idle"

\* a store call fails on the store's side
StoreFault ==
    /\ faults < MaxFaults
    /\ faults' = faults + 1

Begin(p, in, at) ==
    /\ CanCall(p)
    /\ input' = [input EXCEPT ![p] = in]
    /\ pc' = [pc EXCEPT ![p] = at]
    /\ local' = [local EXCEPT ![p] = NoLocal]
    /\ resp' = [resp EXCEPT ![p] = NoResp]
    /\ writes' = [writes EXCEPT ![p] = 0]
    /\ UNCHANGED <<customers, products, orders, lastId, txn, faults>>

Return(p, r) ==
    /\ pc' = [pc EXCEPT ![p] = "done"]
    /\ resp' = [resp EXCEPT ![p] = r]

\* a mutant: the email column carries no unique constraint
NoUniqueViolation(p, email) == FALSE

\* Customer.email is unique=True: an INSERT whose email some row visible to the
\* writer already carries raises IntegrityError
UniqueViolation(p, email) == \E c \in VisibleCustomers(p) : c.email = email

\* an INSERT whose email an uncommitted row of another transaction carries waits
\* for that transaction to end
RowLocked(p, email) ==
    \E q \in Procs \ {p} : \E c \in txn[q].customers : c.email = email

\* Customer(name=..., email=..., phone=input.phone or None) with the next key
NewCustomer(in) ==
    [id |-> lastId.customer + 1, name |-> in.name, email |-> in.email, phone |-> in.phone]

Ids(rows) == {r.id : r \in rows}

(***************************************************************************)
(* CreateCustomer.mutate                                                   *)
(***************************************************************************)
InvalidEmailMsg == "Invalid email format"
InvalidPhoneMsg == "Invalid phone format. Use formats like +1234567890 or 123-456-7890"
EmailExistsMsg == "Email already exists"

\* the two format checks that precede the store query
CustomerFieldErrors(in) ==
    (IF ~validate_email(in.email) THEN <<InvalidEmailMsg>> ELSE <<>>)
    \o (IF Len(in.phone) > 0 /\ ~validate_phone(in.phone) THEN <<InvalidPhoneMsg>> ELSE <<>>)

\* a mutant: the refusal carries a partly built record
CustomerFailedWithRecord(msg, errs) ==
    [status |-> "returned", customer |-> [id |-> lastId.customer + 1], message |-> msg,
     success |-> FALSE, errors |-> errs]

CustomerFailed(msg, errs) ==
    [status |-> "returned", customer |-> None, message |-> msg,
     success |-> FALSE, errors |-> errs]

CustomerCreated(c) ==
    [status |-> "returned", customer |-> c, message |-> "Customer created successfully",
     success |-> TRUE, errors |-> <<>>]

CallCreateCustomer(p, in) ==
    /\ in \in CustomerInputs
    /\ Begin(p, [op |-> "createCustomer", arg |-> in], "cc_check")

\* the format checks and the existence query, which runs outside any try block
CreateCustomerCheck(p) ==
    /\ pc[p] = "cc_check"
    /\ \/ /\ StoreFault
          /\ Return(p, Raised(StoreFaultMsg))
          /\ UNCHANGED local
       \/ LET in == input[p].arg
              errs == CustomerFieldErrors(in)
                      \o (IF EmailExists(p, in.email) THEN <<EmailExistsMsg>> ELSE <<>>)
          IN  /\ IF errs # <<>>
                 THEN /\ Return(p, CustomerFailed("Validation failed", errs))
                      /\ UNCHANGED local
                 ELSE /\ pc' = [pc EXCEPT ![p] = "cc_create"]
                      /\ UNCHANGED <<resp, local>>
              /\ UNCHANGED faults
    /\ UNCHANGED <<customers, products, orders, lastId, txn, input, writes>>

\* Customer.objects.create(...) in autocommit mode, inside try/except Exception
CreateCustomerCreate(p) ==
    /\ pc[p] = "cc_create"
    /\ LET in == input[p].arg
       IN  \/ /\ StoreFault
              /\ Return(p, CustomerFailed("Failed to create customer", <<StoreFaultMsg>>))
              /\ UNCHANGED <<customers, lastId, writes>>
           \/ /\ UniqueViolation(p, in.email)
              /\ Return(p, CustomerFailed("Failed to create customer", <<IntegrityErrorMsg>>))
              /\ UNCHANGED <<customers, lastId, writes, faults>>
           \/ /\ ~UniqueViolation(p, in.email)
              /\ ~RowLocked(p, in.email)
              /\ customers' = customers \cup {NewCustomer(in)}
              /\ lastId' = [lastId EXCEPT !.customer = @ + 1]
              /\ writes' = [writes EXCEPT ![p] = @ + 1]
              /\ Return(p, CustomerCreated(NewCustomer(in)))
              /\ UNCHANGED faults
    /\ UNCHANGED <<products, orders, txn, input, local>>

(***************************************************************************)
(* BulkCreateCustomers.mutate                                              *)
(***************************************************************************)
BulkInvalidPhoneMsg == "Invalid phone format"
DuplicateInBatchMsg == "Duplicate email in batch"

\* f"Row {i+1}: {msg}" (the model counts elements from 1)
RowError(i, msg) == [row |-> i, msg |-> msg]

BulkResponse(created, errs, total) ==
    [status |-> "returned", customers |-> created, errors |-> errs,
     success_count |-> Len(created), total_count |-> total]

CallBulkCreateCustomers(p, batch) ==
    /\ batch \in Batches
    /\ Begin(p, [op |-> "bulkCreateCustomers", arg |-> batch],
             IF Len(batch) = 0 THEN "bk_exit" ELSE "bk_check")

\* the pc after the loop body for element i has ended
AfterElement(p, i) == IF i + 1 > Len(input[p].arg) THEN "bk_exit" ELSE "bk_check"

\* a mutant: the element is skipped and no error is recorded for it
SkipElementSilently(p, msg) ==
    LET i == local[p].i
    IN  /\ local' = [local EXCEPT ![p].i = i + 1]
        /\ pc' = [pc EXCEPT ![p] = AfterElement(p, i)]

\* `errors.append(...); continue`, and the except branch of the loop body
SkipElement(p, msg) ==
    LET i == local[p].i
    IN  /\ local' = [local EXCEPT ![p].errors = Append(@, RowError(i, msg)),
                                  ![p].i = i + 1]
        /\ pc' = [pc EXCEPT ![p] = AfterElement(p, i)]

\* [c.email for c in input[:i]]
emails_in_batch(batch, i) == {batch[k].email : k \in 1..(i - 1)}

\* one element's checks, up to the existence query
BulkCheck(p) ==
    /\ pc[p] = "bk_check"
    /\ LET i == local[p].i
           d == input[p].arg[i]
       IN  IF ~validate_email(d.email) THEN SkipElement(p, InvalidEmailMsg)
           ELSE IF Len(d.phone) > 0 /\ ~validate_phone(d.phone)
                THEN SkipElement(p, BulkInvalidPhoneMsg)
           ELSE IF local[p].needs_rollback
                THEN SkipElement(p, TransactionManagementErrorMsg)
           ELSE IF EmailExists(p, d.email) THEN SkipElement(p, EmailExistsMsg)
           ELSE IF d.email \in emails_in_batch(input[p].arg, i)
                THEN SkipElement(p, DuplicateInBatchMsg)
           ELSE /\ pc' = [pc EXCEPT ![p] = "bk_create"]
                /\ UNCHANGED local
    /\ UNCHANGED <<customers, products, orders, lastId, txn, input, resp, writes, faults>>

\* the existence query of an element fails on the store's side; the loop body's
\* except branch catches it
BulkCheckFault(p) ==
    /\ pc[p] = "bk_check"
    /\ LET d == input[p].arg[local[p].i]
       IN  /\ validate_email(d.email)
           /\ ~(Len(d.phone) > 0 /\ ~validate_phone(d.phone))
           /\ ~local[p].needs_rollback
    /\ StoreFault
    /\ SkipElement(p, StoreFaultMsg)
    /\ UNCHANGED <<customers, products, orders, lastId, txn, input, resp, writes>>

\* Model.save_base runs the INSERT under mark_for_rollback_on_error: an exception
\* inside an atomic block sets the connection's needs_rollback
MarkForRollback(p, loc) == [loc EXCEPT !.needs_rollback = TRUE]

\* an element's Customer.objects.create(...) inside the atomic block; the loop
\* body's except branch catches what it raises
BulkCreate(p) ==
    /\ pc[p] = "bk_create"
    /\ LET i == local[p].i
           d == input[p].arg[i]
           failed(msg) ==
               /\ local' = [local EXCEPT ![p] =
                     [MarkForRollback(p, @) EXCEPT !.errors = Append(@, RowError(i, msg)),
                                                   !.i = i + 1]]
               /\ UNCHANGED <<txn, lastId, writes>>
       IN  /\ \/ /\ StoreFault
                 /\ failed(StoreFaultMsg)
              \/ /\ UniqueViolation(p, d.email)
                 /\ failed(IntegrityErrorMsg)
                 /\ UNCHANGED faults
              \/ /\ ~UniqueViolation(p, d.email)
                 /\ UNCHANGED faults
                 /\ ~RowLocked(p, d.email)
                 /\ txn' = [txn EXCEPT ![p].customers = @ \cup {NewCustomer(d)}]
                 /\ lastId' = [lastId EXCEPT !.customer = @ + 1]
                 /\ writes' = [writes EXCEPT ![p] = @ + 1]
                 /\ local' = [local EXCEPT ![p].created = Append(@, NewCustomer(d)),
                                           ![p].i = i + 1]
           /\ pc' = [pc EXCEPT ![p] = AfterElement(p, i)]
    /\ UNCHANGED <<customers, products, orders, input, resp>>

\* Atomic.__exit__ without an exception: COMMIT, unless needs_rollback is set,
\* and then ROLLBACK
AtomicExit(p, rows) == IF local[p].needs_rollback THEN {} ELSE rows

\* leaving the atomic block and returning the two lists
BulkExit(p) ==
    /\ pc[p] = "bk_exit"
    /\ customers' = customers \cup AtomicExit(p, txn[p].customers)
    /\ txn' = [txn EXCEPT ![p] = NoTxn]
    /\ Return(p, BulkResponse(local[p].created, local[p].errors, Len(input[p].arg)))
    /\ UNCHANGED <<products, orders, lastId, input, local, writes, faults>>

(***************************************************************************)
(* The customer handlers under concurrent callers.                         *)
(***************************************************************************)
NextCustomers ==
    \E p \in Procs :
        \/ \E in \in CustomerInputs : CallCreateCustomer(p, in)
        \/ CreateCustomerCheck(p)
        \/ CreateCustomerCreate(p)
        \/ \E batch \in ConcurrentBatches : CallBulkCreateCustomers(p, batch)
        \/ BulkCheck(p)
        \/ BulkCheckFault(p)
        \/ BulkCreate(p)
        \/ BulkExit(p)

SpecCustomers == Init /\ [][NextCustomers]_vars

\* bulkCreateCustomers called once, by a caller that runs alone
NextBatch ==
    \/ \E batch \in Batches : CallBulkCreateCustomers(1, batch)
    \/ BulkCheck(1)
    \/ BulkCheckFault(1)
    \/ BulkCreate(1)
    \/ BulkExit(1)

SpecBatch == Init /\ [][NextBatch]_vars

(***************************************************************************)
(* CreateProduct.mutate                                                    *)
(***************************************************************************)
\* stock = input.stock if input.stock is not None else 0
StockOf(in) == IF in.stock = <<>> THEN 0 ELSE in.stock[1]

ProductFieldErrors(in) ==
    (IF in.price <= 0 THEN <<"Price must be positive">> ELSE <<>>)
    \o (IF StockOf(in) < 0 THEN <<"Stock cannot be negative">> ELSE <<>>)

NewProduct(in) ==
    [id |-> lastId.product + 1, name |-> in.name, price |-> in.price, stock |-> StockOf(in)]

ProductFailed(msg, errs) ==
    [status |-> "returned", product |-> None, message |-> msg,
     success |-> FALSE, errors |-> errs]

ProductCreated(r) ==
    [status |-> "returned", product |-> r, message |-> "Product created successfully",
     success |-> TRUE, errors |-> <<>>]

CallCreateProduct(p, in) ==
    /\ in \in ProductInputs
    /\ Begin(p, [op |-> "createProduct", arg |-> in], "cp_mutate")

\* the two range checks, then Product.objects.create(...) inside try/except
CreateProductMutate(p) ==
    /\ pc[p] = "cp_mutate"
    /\ LET in == input[p].arg
           errs == ProductFieldErrors(in)
       IN  \/ /\ errs # <<>>
              /\ Return(p, ProductFailed("Validation failed", errs))
              /\ UNCHANGED <<products, lastId, writes, faults>>
           \/ /\ errs = <<>>
              /\ StoreFault
              /\ Return(p, ProductFailed("Failed to create product", <<StoreFaultMsg>>))
              /\ UNCHANGED <<products, lastId, writes>>
           \/ /\ errs = <<>>
              /\ products' = products \cup {NewProduct(in)}
              /\ lastId' = [lastId EXCEPT !.product = @ + 1]
              /\ writes' = [writes EXCEPT ![p] = @ + 1]
              /\ Return(p, ProductCreated(NewProduct(in)))
              /\ UNCHANGED faults
    /\ UNCHANGED <<customers, orders, txn, input, local>>

(***************************************************************************)
(* CreateOrder.mutate                                                      *)
(***************************************************************************)
CustomerMissingMsg == "Customer with ID does not exist"
ProductMissingMsg == "Product with ID does not exist"
NoProductsMsg == "At least one product must be selected"
ValueErrorMsg == "Field 'id' expected a number"
AttributeErrorMsg == "'Order' object has no attribute 'calculate_total'"

\* an entry of CreateOrder's error list: the message and the ID it quotes
OrderError(msg, id) == [msg |-> msg, id |-> id]

OrderFailed(msg, errs) ==
    [status |-> "returned", order |-> None, message |-> msg,
     success |-> FALSE, errors |-> errs]

\* Model.objects.get(id=id): the row with that key, if any
RowsWithId(rows, id) == {r \in rows : r.id = IntOf(id)}
GetRow(rows, id) == CHOOSE r \in RowsWithId(rows, id) : TRUE

\* the methods crm/models.py gives an Order instance
OrderMethods == {"__str__"}

\* a mutant: the lookup loop stops recording after the first error
ProductLookupErrorsFirstOnly(errs, found, id) ==
    IF found \/ errs # <<>> THEN errs ELSE Append(errs, OrderError(ProductMissingMsg, id))

\* except Product.DoesNotExist: errors.append(...)
ProductLookupErrors(errs, found, id) ==
    IF found THEN errs ELSE Append(errs, OrderError(ProductMissingMsg, id))

CallCreateOrder(p, in) ==
    /\ in \in OrderInputs
    /\ Begin(p, [op |-> "createOrder", arg |-> in], "co_customer")

\* Customer.objects.get(id=input.customer_id), where only DoesNotExist is caught,
\* and the test of an empty product_ids
CreateOrderCustomer(p) ==
    /\ pc[p] = "co_customer"
    /\ LET in == input[p].arg
           found == RowsWithId(customers, in.customer_id) # {}
           errs == IF found THEN <<>> ELSE <<OrderError(CustomerMissingMsg, in.customer_id)>>
       IN  \/ /\ StoreFault
              /\ Return(p, Raised(StoreFaultMsg))
              /\ UNCHANGED local
           \/ /\ UNCHANGED faults
              /\ IF ~IsInt(in.customer_id)
                 THEN /\ Return(p, Raised(ValueErrorMsg))
                      /\ UNCHANGED local
                 ELSE IF in.product_ids = <<>>
                 THEN /\ Return(p, OrderFailed("Validation failed",
                                       Append(errs, OrderError(NoProductsMsg, <<>>))))
                      /\ UNCHANGED local
                 ELSE /\ local' = [local EXCEPT
                            ![p].customer = IF found THEN GetRow(customers, in.customer_id)
                                            ELSE None,
                            ![p].errors = errs]
                      /\ pc' = [pc EXCEPT ![p] = "co_product"]
                      /\ UNCHANGED resp
    /\ UNCHANGED <<customers, products, orders, lastId, txn, input, writes>>

\* Product.objects.get(id=product_id) for the next element of product_ids, and
\* `if errors` once the last one is done
CreateOrderProduct(p) ==
    /\ pc[p] = "co_product"
    /\ LET in == input[p].arg
           i == local[p].i
           id == in.product_ids[i]
           found == RowsWithId(products, id) # {}
           errs == ProductLookupErrors(local[p].errors, found, id)
           prods == IF found THEN Append(local[p].products, GetRow(products, id))
                    ELSE local[p].products
       IN  \/ /\ StoreFault
              /\ Return(p, Raised(StoreFaultMsg))
              /\ UNCHANGED local
           \/ /\ UNCHANGED faults
              /\ IF ~IsInt(id)
                 THEN /\ Return(p, Raised(ValueErrorMsg))
                      /\ UNCHANGED local
                 ELSE /\ local' = [local EXCEPT ![p].errors = errs, ![p].products = prods,
                                               ![p].i = i + 1]
                      /\ IF i < Len(in.product_ids)
                         THEN UNCHANGED <<pc, resp>>
                         ELSE IF errs # <<>>
                         THEN Return(p, OrderFailed("Validation failed", errs))
                         ELSE /\ pc' = [pc EXCEPT ![p] = "co_create"]
                              /\ UNCHANGED resp
    /\ UNCHANGED <<customers, products, orders, lastId, txn, input, writes>>

\* a mutant: the write sequence runs outside any transaction, its rows stay
AtomicAbortKeepsRows(rows) == rows

\* what an atomic block that an exception leaves makes visible of the rows it
\* wrote: nothing (ROLLBACK)
AtomicAbort(rows) == {}

\* the except branch of the write sequence: the atomic block is rolled back and
\* the exception's text is the response's only error
OrderWriteFailed(p, msg) ==
    /\ orders' = orders \cup AtomicAbort(txn[p].orders)
    /\ txn' = [txn EXCEPT ![p] = NoTxn]
    /\ Return(p, OrderFailed("Failed to create order", <<OrderError(msg, <<>>)>>))

\* Order.objects.create(customer=customer, order_date=input.order_date), the
\* first statement of the atomic block
CreateOrderCreate(p) ==
    /\ pc[p] = "co_create"
    /\ \/ /\ StoreFault
          /\ OrderWriteFailed(p, StoreFaultMsg)
          /\ UNCHANGED <<lastId, writes, local>>
       \/ LET o == [id |-> lastId.order + 1, customer |-> local[p].customer.id,
                    products |-> {}, total_amount |-> 0]
          IN  /\ txn' = [txn EXCEPT ![p].orders = {o}]
              /\ lastId' = [lastId EXCEPT !.order = @ + 1]
              /\ writes' = [writes EXCEPT ![p] = @ + 1]
              /\ local' = [local EXCEPT ![p].order = o]
              /\ pc' = [pc EXCEPT ![p] = "co_set"]
              /\ UNCHANGED <<orders, resp, faults>>
    /\ UNCHANGED <<customers, products, input>>

\* order.products.set(products): the association rows of the distinct products
CreateOrderSetProducts(p) ==
    /\ pc[p] = "co_set"
    /\ \/ /\ StoreFault
          /\ OrderWriteFailed(p, StoreFaultMsg)
          /\ UNCHANGED <<writes, local>>
       \/ LET o == [local[p].order EXCEPT !.products = Ids(Range(local[p].products))]
          IN  /\ txn' = [txn EXCEPT ![p].orders = {o}]
              /\ writes' = [writes EXCEPT ![p] = @ + 1]
              /\ local' = [local EXCEPT ![p].order = o]
              /\ pc' = [pc EXCEPT ![p] = "co_total"]
              /\ UNCHANGED <<orders, resp, faults>>
    /\ UNCHANGED <<customers, products, lastId, input>>

\* order.calculate_total(): Order defines no such method, the call raises
\* AttributeError and order.save() is never reached
CreateOrderTotal(p) ==
    /\ pc[p] = "co_total"
    /\ "calculate_total" \notin OrderMethods
    /\ OrderWriteFailed(p, AttributeErrorMsg)
    /\ UNCHANGED <<customers, products, lastId, input, local, writes, faults>>

(***************************************************************************)
(* The product and order handlers under concurrent callers, on the seeded  *)
(* database.                                                               *)
(***************************************************************************)
NextOrders ==
    \E p \in Procs :
        \/ \E in \in ProductInputs : CallCreateProduct(p, in)
        \/ CreateProductMutate(p)
        \/ \E in \in OrderInputs : CallCreateOrder(p, in)
        \/ CreateOrderCustomer(p)
        \/ CreateOrderProduct(p)
        \/ CreateOrderCreate(p)
        \/ CreateOrderSetProducts(p)
        \/ CreateOrderTotal(p)

SpecOrders == InitSeeded /\ [][NextOrders]_vars

\* every mutation, from the empty database
\* createCustomer and createProduct under concurrent callers, on an empty store
NextSingle ==
    \E p \in Procs :
        \/ \E in \in CustomerInputs : CallCreateCustomer(p, in)
        \/ CreateCustomerCheck(p)
        \/ CreateCustomerCreate(p)
        \/ \E in \in ProductInputs : CallCreateProduct(p, in)
        \/ CreateProductMutate(p)

SpecSingle == Init /\ [][NextSingle]_vars

Next == NextCustomers \/ NextOrders

Spec == Init /\ [][Next]_vars

(***************************************************************************)
(* Properties.                                                             *)
(***************************************************************************)
\* the lower-cased form of a text, character by character; no handler computes it
LowerChar(c) ==
    IF c \in Range(UpperSeq)
    THEN LowerSeq[CHOOSE k \in DOMAIN UpperSeq : UpperSeq[k] = c]
    ELSE c
Lower(s) == [k \in DOMAIN s |-> LowerChar(s[k])]

\* a text that is empty once trimmed; no handler tests it
Blank(s) == \A k \in DOMAIN s : s[k] = " "

Done(p, op) == pc[p] = "done" /\ input[p].op = op
Returned(p, op) == Done(p, op) /\ resp[p].status = "returned"

\* C1: no two stored customers carry the same email, whatever the interleaving
\* of createCustomer and bulkCreateCustomers; an INSERT that finds its email
\* already stored adds no row and leaves an error for its caller, and a
\* createCustomer response without success carries an error and wrote nothing.
EmailUnique == \A c1 \in customers : \A c2 \in customers : c1.email = c2.email => c1 = c2
LoserGetsError ==
    \A p \in Procs :
        (/\ pc[p] \in {"cc_create", "bk_create"}
         /\ pc'[p] # pc[p]
         /\ \E c \in customers :
                c.email = (IF pc[p] = "cc_create" THEN input[p].arg.email
                           ELSE input[p].arg[local[p].i].email))
        => /\ customers' = customers
           /\ txn'[p] = txn[p]
           /\ IF pc[p] = "cc_create"
              THEN /\ resp'[p].status = "returned"
                   /\ ~resp'[p].success
                   /\ resp'[p].customer = None
                   /\ resp'[p].errors # <<>>
              ELSE /\ Len(local'[p].errors) = Len(local[p].errors) + 1
                   /\ local'[p].errors[Len(local'[p].errors)].row = local[p].i
                   /\ local'[p].created = local[p].created
FailedCustomerWroteNothing ==
    \A p \in Procs :
        Returned(p, "createCustomer") /\ ~resp[p].success
        => resp[p].errors # <<>> /\ resp[p].customer = None /\ writes[p] = 0
C1_EmailUniqueUnderRaces ==
    /\ [](EmailUnique /\ FailedCustomerWroteNothing)
    /\ [][LoserGetsError]_vars

\* C1's case: two callers passed the existence check for one email, one stored
\* it and the other was answered with the store's uniqueness error
C1_Witness ==
    \E p \in Procs : \E q \in Procs \ {p} :
        /\ Returned(p, "createCustomer") /\ resp[p].success
        /\ Returned(q, "createCustomer")
        /\ resp[q].errors = <<IntegrityErrorMsg>>
        /\ input[q].arg.email = input[p].arg.email
        /\ Cardinality({c \in customers : c.email = input[p].arg.email}) = 1

\* the outcomes createCustomer may answer a valid input with when it stores no row
CustomerRefusals == {<<EmailExistsMsg>>, <<IntegrityErrorMsg>>, <<StoreFaultMsg>>}

\* C2: createCustomer answers an input with valid fields and an unused email
\* with success=true and a record whose stored email is the lower-cased input
\* email (a valid input is refused only for a taken email or a failing store).
C2_StoredEmailLowerCased ==
    \A p \in Procs :
        (/\ Returned(p, "createCustomer")
         /\ CustomerFieldErrors(input[p].arg) = <<>>
         /\ ~Blank(input[p].arg.name))
        => IF resp[p].success
           THEN /\ resp[p].customer \in customers
                /\ resp[p].customer.email = Lower(input[p].arg.email)
           ELSE resp[p].errors \in CustomerRefusals

\* C3: when createCustomer consults the store and a stored customer carries the
\* input email up to letter case, it answers success=false with the
\* duplicate-email error and the stored customers stay as they are.
C3_CaseInsensitiveDuplicateRefused ==
    [][\A p \in Procs :
        (/\ pc[p] = "cc_check"
         /\ pc'[p] # pc[p]
         /\ faults' = faults
         /\ \E c \in customers : Lower(c.email) = Lower(input[p].arg.email))
        => /\ pc'[p] = "done"
           /\ resp'[p].status = "returned"
           /\ ~resp'[p].success
           /\ EmailExistsMsg \in Range(resp'[p].errors)
           /\ customers' = customers]_vars

\* the indices of a batch that the error list names
ErrorRows(errs) == {errs[k].row : k \in DOMAIN errs}

\* the indices of 1..n outside rows, in increasing order
RECURSIVE Remaining(_, _, _)
Remaining(i, n, rows) ==
    IF i > n THEN <<>>
    ELSE (IF i \in rows THEN <<>> ELSE <<i>>) \o Remaining(i + 1, n, rows)

\* after m elements: every index 1..m has exactly one outcome, an error naming
\* it or the record made of it, the records in the order of their indices
OneOutcomePerIndex(batch, m, created, errs) ==
    LET rows == ErrorRows(errs)
        rest == Remaining(1, m, rows)
    IN  /\ Len(created) + Len(errs) = m
        /\ rows \subseteq 1..m
        /\ Cardinality(rows) = Len(errs)
        /\ Len(rest) = Len(created)
        /\ \A k \in DOMAIN created :
               /\ created[k].email = batch[rest[k]].email
               /\ created[k].name = batch[rest[k]].name
               /\ created[k].phone = batch[rest[k]].phone

\* C4: bulkCreateCustomers yields exactly one outcome per index of its batch,
\* a created record or a tagged error, so len(created) + len(errors) == N, also
\* when an INSERT raises; the same holds of the elements done so far while the
\* loop runs.
C4_OneOutcomePerIndex ==
    \A p \in Procs :
        /\ (input[p].op = "bulkCreateCustomers" /\ pc[p] # "done")
           => OneOutcomePerIndex(input[p].arg, local[p].i - 1,
                                 local[p].created, local[p].errors)
        /\ Returned(p, "bulkCreateCustomers")
           => /\ OneOutcomePerIndex(input[p].arg, Len(input[p].arg),
                                    resp[p].customers, resp[p].errors)
              /\ resp[p].success_count = Len(resp[p].customers)
              /\ resp[p].total_count = Len(input[p].arg)
        /\ Done(p, "bulkCreateCustomers") => resp[p].status = "returned"

\* C4's case: a batch of two came back with a created record and with the
\* error of an INSERT that raised
C4_Witness ==
    \E p \in Procs :
        /\ Returned(p, "bulkCreateCustomers")
        /\ Len(input[p].arg) = 2
        /\ Len(resp[p].customers) = 1
        /\ \E k \in DOMAIN resp[p].errors : resp[p].errors[k].msg = IntegrityErrorMsg

\* the batch of the scenario: a valid element, one with an empty name and
\* another email, and the first email again
ScenarioBatch ==
    << [name |-> NameA,     email |-> EmailA, phone |-> PhoneNone],
       [name |-> NameEmpty, email |-> EmailB, phone |-> PhoneNone],
       [name |-> NameA,     email |-> EmailA, phone |-> PhoneNone] >>

\* C5: on an empty store, with no other caller and no failure of the store,
\* the scenario batch creates exactly one customer: index 0 succeeds, index 1,
\* whose name is blank, is refused and not persisted, and index 2 is refused
\* for its email; no customer with a blank name is in the store afterwards.
C5_BlankNameNeverPersisted ==
    \A p \in Procs :
        (/\ Returned(p, "bulkCreateCustomers")
         /\ input[p].arg = ScenarioBatch
         /\ faults = 0)
        => /\ Len(resp[p].customers) = 1
           /\ resp[p].customers[1].email = EmailA
           /\ ErrorRows(resp[p].errors) = {2, 3}
           /\ Cardinality(customers) = 1
           /\ \A c \in customers : ~Blank(c.name)

\* C6: every customer in the created list bulkCreateCustomers returns is in the
\* store, also when a later element of the batch failed at the store.
C6_CreatedListIsStored ==
    \A p \in Procs :
        Returned(p, "bulkCreateCustomers")
        => \A k \in DOMAIN resp[p].customers : resp[p].customers[k] \in customers

RECURSIVE SumPrices(_)
SumPrices(rows) ==
    IF rows = {} THEN 0
    ELSE LET r == CHOOSE x \in rows : TRUE IN r.price + SumPrices(rows \ {r})

PricesOf(ids) == SumPrices({r \in products : r.id \in ids})

WellFormed(in) ==
    /\ IsInt(in.customer_id)
    /\ \A k \in DOMAIN in.product_ids : IsInt(in.product_ids[k])

CustomerMissing(in) == RowsWithId(customers, in.customer_id) = {}
MissingProducts(in) ==
    {k \in DOMAIN in.product_ids : RowsWithId(products, in.product_ids[k]) = {}}

\* C7: a createOrder call with an existing customer and a non-empty product
\* list of which every reference resolves succeeds and persists an order whose
\* total_amount is the sum of its products' prices (as long as the store does
\* not fail).
C7_OrderTotalIsSum ==
    \A p \in Procs :
        (/\ Done(p, "createOrder")
         /\ faults = 0
         /\ WellFormed(input[p].arg)
         /\ input[p].arg.product_ids # <<>>
         /\ ~CustomerMissing(input[p].arg)
         /\ MissingProducts(input[p].arg) = {})
        => /\ resp[p].status = "returned"
           /\ resp[p].success
           /\ \E o \in orders :
                  /\ o.id = resp[p].order.id
                  /\ o.products = {IntOf(input[p].arg.product_ids[k]) :
                                      k \in DOMAIN input[p].arg.product_ids}
                  /\ o.total_amount = PricesOf(o.products)

\* the errors createOrder owes an input: the customer's if it is missing, then
\* the empty list's or one per missing product, in the order of the list
ExpectedOrderErrors(in) ==
    (IF CustomerMissing(in) THEN <<OrderError(CustomerMissingMsg, in.customer_id)>> ELSE <<>>)
    \o (IF in.product_ids = <<>> THEN <<OrderError(NoProductsMsg, <<>>)>>
        ELSE LET miss == Remaining(1, Len(in.product_ids),
                                   DOMAIN in.product_ids \ MissingProducts(in))
             IN  [k \in DOMAIN miss |-> OrderError(ProductMissingMsg, in.product_ids[miss[k]])])

\* C8: given an empty product list, or a customer id or any product id that no
\* row has, createOrder returns success=false with every accumulated error (the
\* customer's and one per missing product together) and writes nothing.
C8_AllReferenceErrorsNothingWritten ==
    \A p \in Procs :
        LET in == input[p].arg
        IN  (/\ Done(p, "createOrder")
             /\ faults = 0
             /\ WellFormed(in)
             /\ (in.product_ids = <<>> \/ CustomerMissing(in) \/ MissingProducts(in) # {}))
            => /\ resp[p].status = "returned"
               /\ ~resp[p].success
               /\ resp[p].order = None
               /\ resp[p].message = "Validation failed"
               /\ resp[p].errors = ExpectedOrderErrors(in)
               /\ writes[p] = 0
               /\ txn[p] = NoTxn
               /\ local[p].order = None

\* C8's case: a missing customer and a missing product reported together
C8_Witness ==
    \E p \in Procs :
        /\ Returned(p, "createOrder")
        /\ input[p].arg.customer_id = <<"9">>
        /\ input[p].arg.product_ids = <<"1", "9">>
        /\ Len(resp[p].errors) = 2
        /\ orders = SeededOrders

\* C9: every order visible in the store has an existing customer, a non-empty
\* set of existing products and their prices' sum as total_amount; a createOrder
\* call whose write sequence failed leaves no order row and no association
\* behind, and one that reports success has its order in the store.
C9_OrderAllOrNothing ==
    /\ \A o \in orders :
           /\ o.customer \in Ids(customers)
           /\ o.products # {}
           /\ o.products \subseteq Ids(products)
           /\ o.total_amount = PricesOf(o.products)
    /\ \A p \in Procs :
           Returned(p, "createOrder")
           => /\ txn[p] = NoTxn
              /\ IF resp[p].success
                 THEN resp[p].order \in orders
                 ELSE /\ resp[p].order = None
                      /\ local[p].order.id \notin Ids(orders)

\* C9's case: the order row and its associations were written, the sequence
\* then failed, and neither is visible
C9_Witness ==
    \E p \in Procs :
        /\ Returned(p, "createOrder")
        /\ ~resp[p].success
        /\ local[p].order # None
        /\ local[p].order.products # {}
        /\ writes[p] = 2
        /\ local[p].order.id \notin Ids(orders)

\* C10: no mutation handler lets an exception escape: every call that ends,
\* whatever its input and whichever store call failed, ends with a response,
\* whose error list is non-empty unless it reports success.
C10_NoExceptionEscapes ==
    \A p \in Procs :
        pc[p] = "done"
        => /\ resp[p].status = "returned"
           /\ (input[p].op # "bulkCreateCustomers" /\ ~resp[p].success)
              => resp[p].errors # <<>>

\* the fields of a batch element pass the element's checks and its name is not blank
ValidElement(d) ==
    /\ validate_email(d.email)
    /\ (Len(d.phone) > 0 => validate_phone(d.phone))
    /\ ~Blank(d.name)

\* C11: in bulkCreateCustomers a failed element never keeps a later one from
\* being persisted: on an empty store, with no other caller and no failure of
\* the store, an element with valid fields whose email no earlier element that
\* was created carries is itself created and stored, also when an earlier
\* element with the same email was rejected.
C11_RejectedElementDoesNotBlockLater ==
    \A p \in Procs :
        (Returned(p, "bulkCreateCustomers") /\ faults = 0)
        => LET batch == input[p].arg
               rows == ErrorRows(resp[p].errors)
           IN  \A i \in DOMAIN batch :
                   (/\ ValidElement(batch[i])
                    /\ \A k \in 1..(i - 1) :
                           batch[k].email = batch[i].email => k \in rows)
                   => /\ i \notin rows
                      /\ \E c \in customers : c.email = batch[i].email

\* the record and the table of a single-entity mutation
RecordOf(r, op) == IF op = "createCustomer" THEN r.customer ELSE r.product
SingleOps == {"createCustomer", "createProduct"}

\* what a response of a single-entity mutation looks like
SingleResponseShape ==
    \A p \in Procs :
        /\ input[p].op \in SingleOps => writes[p] <= 1
        /\ (input[p].op \in SingleOps /\ Returned(p, input[p].op))
           => LET r == resp[p]
                  rec == RecordOf(r, input[p].op)
              IN  /\ r.errors # <<>> => rec = None /\ ~r.success /\ writes[p] = 0
                  /\ r.success <=> (rec # None /\ r.errors = <<>>)
                  /\ r.success => /\ writes[p] = 1
                                  /\ rec \in (IF input[p].op = "createCustomer"
                                               THEN customers ELSE products)

\* a step of a single-entity mutation changes the store only on the all-clear
\* path, and a step that answers with errors leaves the store as it was
SingleWriteOnAllClear ==
    \A p \in Procs :
        (input[p].op \in SingleOps /\ pc'[p] # pc[p] /\ pc[p] # "done")
        => /\ (customers' # customers \/ products' # products)
              => /\ writes[p] = 0
                 /\ resp'[p].status = "returned"
                 /\ resp'[p].success
                 /\ IF input[p].op = "createCustomer"
                    THEN /\ CustomerFieldErrors(input[p].arg) = <<>>
                         /\ ~\E c \in customers : c.email = input[p].arg.email
                         /\ customers' = customers \cup {resp'[p].customer}
                         /\ products' = products
                    ELSE /\ input[p].arg.price > 0
                         /\ StockOf(input[p].arg) >= 0
                         /\ products' = products \cup {resp'[p].product}
                         /\ customers' = customers
           /\ (resp'[p].status = "returned" /\ resp'[p].errors # <<>>)
              => /\ customers' = customers
                 /\ products' = products
                 /\ orders' = orders

\* C12: createCustomer and createProduct write the store at most once per
\* call and only when no validation or uniqueness error was found; a response
\* with errors carries a null record, success=false and left the store
\* unchanged, and success=true holds exactly when the record is populated and
\* the error list is empty.
C12_SingleWriteOnAllClear ==
    /\ []SingleResponseShape
    /\ [][SingleWriteOnAllClear]_vars

\* C12's case: one caller stored a customer, and the createCustomer that lost
\* the race for its email was answered with the store's error, a null record and
\* no write, while a customer with that email is in the store
C12_Witness ==
    \E p \in Procs : \E q \in Procs \ {p} :
        /\ Returned(p, "createCustomer")
        /\ resp[p].errors = <<IntegrityErrorMsg>>
        /\ resp[p].customer = None
        /\ writes[p] = 0
        /\ \E c \in customers : c.email = input[p].arg.email
        /\ Returned(q, "createCustomer")
        /\ resp[q].success
        /\ writes[q] = 1

====
